---------------------------- MODULE Spec2Model ----------------------------
(***************************************************************************)
(* Model of the delivery-system orchestration core:                        *)
(*   - OrderOrchestratorService (assignOrderToSlot, requestUnlock,         *)
(*     confirmUnlock, handleUnlockFailure, emergencyUnlock, the delayed    *)
(*     resetSlotAfterPickup timer),                                        *)
(*   - RedisService (slot reservation, unlock-token jti, rate limit),      *)
(*   - AuthService (generateUnlockToken, verifyUnlockToken),               *)
(*   - MQTTService.publishCommand / DeviceService lock commands.           *)
(*                                                                         *)
(* Every `await` of assignOrderToSlot, generateUnlockToken and             *)
(* verifyUnlockToken is a separate step of a process, so that concurrent   *)
(* calls interleave exactly where the event loop lets them.  A store, a    *)
(* ledger or a channel call may throw at any await.                        *)
(*                                                                         *)
(* The durable store (getOrder, getSlot, updateSlotState, ...) is only a   *)
(* placeholder in the source ("Implementation would query database"); it   *)
(* is modelled as a table of rows that the helpers read and write.         *)
(***************************************************************************)
EXTENDS Integers, FiniteSets, Sequences, TLC

None == "none"

\* ---------------------------------------------------------------- universe

Orders == {"O1", "O2"}
\* An order id a request may carry that is in no row of the store.
OrderIds == Orders \cup {"Ox"}
Slots == {"S1", "S2"}
\* A slot id a request may carry that is in no row of the store.
SlotIds == Slots \cup {"Sx"}
Tenants == {"T1", "T2"}
Riders == {"R1", "R2"}
\* The couriers the delivery platform confirms for the orders of the site.
AuthorizedRiders == {"R1"}
Shelves == {"A", "B"}
\* The concurrent assignOrderToSlot calls.
Procs == {"p1", "p2"}
\* The concurrent verifyUnlockToken calls.
Verifiers == {"v1", "v2"}

\* Fixed attributes of the rows (never written by the orchestrator).
OrderTenant(o) == "T1"
SlotSite(s) == "site1"
SlotShelf(s) == IF s = "S1" THEN "A" ELSE "B"
SlotIndex(s) == IF s = "S1" THEN 1 ELSE 2

SlotStates == {"empty", "reserved", "occupied", "unlocking", "open", "error"}
OrderStatuses == {"created", "prepared", "assigned", "picked_up", "complete", "cancelled"}

\* ------------------------------------------------------------------ bounds

\* Pending setTimeout callbacks per slot.
MaxTimers == 1
\* Unlock tokens minted in one behaviour.
MaxJti == 2
\* Unlock tokens signed by the issuer process of the token protocol.
MaxSigned == 1
\* A verifier's clock is at most this far from the store's clock (seconds).
MaxDrift == 11
\* requestUnlock calls counted beyond the rate-limit threshold.
MaxOver == 1

\* The instants (seconds) the store's clock passes through: the start, and
\* the instants around exp and exp + tolerance of a token minted at 0 or 1.
Instants == {0, 1, 59, 60, 61, 69, 70, 71}
\* The instants at which tokens are minted.
IssueInstants == {0, 1}
\* How far a verifier's clock is from the store's clock.
Drifts == {0 - MaxDrift, 0, MaxDrift}

\* ------------------------------------------------------- program constants

\* config.jwt.unlockTokenTTL
unlockTokenTTL == 60
\* the "small buffer" added to the jti's TTL
jtiTTLBuffer == 10
\* config.security.clockSkewToleranceSeconds
clockSkewToleranceSeconds == 10
\* config.business.maxUnlockAttempts
maxUnlockAttempts == 3

VARIABLES
    slotState,      \* Slot.state of each row
    slotOrder,      \* Slot.orderId of each row (None: no order)
    slotActive,     \* Slot.isActive
    orderStatus,    \* Order.status of each row
    orderSlot,      \* the slot updateOrderStatus bound the order to
    resv,           \* redis slot_reservation:<slot> -> order id, None: absent
    resvTTL,        \* whether the reservation key carries an expiry
    timers,         \* pending resetSlotAfterPickup callbacks per slot
    mqttConnected,  \* MQTTService.isConnected
    rate,           \* redis rate_limit:unlock_attempts:<rider>
    uResult,        \* what the last requestUnlock call returned and logged
    pc,             \* position of each assignOrderToSlot call
    aOrder,         \* its order
    aSlot,          \* its targetSlot
    aResult,        \* what it returned
    aHeld,          \* a failed call: whether its slot's reservation key existed at the return
    aLog,           \* the ledger events and device commands the call has sent
    now,            \* the store's clock, seconds
    nextJti,        \* next fresh jti
    tokens,         \* signed unlock tokens (payloads)
    handed,         \* jtis of the tokens returned to a caller
    jtiExp,         \* redis unlock_jti:<jti> -> the instant the key expires (0: no key)
    jtiStored,      \* jtis ever registered (history)
    gpc,            \* position of the generateUnlockToken call
    gTok,           \* the token it signed
    vpc,            \* position of each verifyUnlockToken call
    vTok,           \* the token it was given (while the call is in flight)
    vShelf,         \* its requestingShelfId
    vClock,         \* the verifier's clock at jwt.verify
    vResult,        \* the security event the verifier's last call logged
    okCount,        \* successful verifications per jti (history)
    eResult,        \* what the last emergencyUnlock call returned, logged and sent
    subscriptions,  \* MQTTService.subscriptions: the patterns of the Map, in insertion order
    brokerSubs,     \* the patterns the broker holds for this client's session
    mqttPending,    \* subscribe/unsubscribe calls awaiting the broker's acknowledgement
    resub,          \* the resubscribeToTopics loop: running, and the entries it has yet to visit
    dispatched,     \* the last inbound message: its topic and the callbacks invoked for it
    inbound,        \* device events handed to handleDeviceEvent and not yet handled
    deviceLog,      \* the device events written to the ledger and the device log
    tamper,         \* redis cache device_tamper:<deviceId>
    rateTTL,        \* whether redis rate_limit:unlock_attempts:<rider> carries an expiry
    magicStored,    \* redis magic_link:<token> keys
    magicHanded,    \* magic-link tokens returned by generateRiderMagicLink
    magicPc,        \* position of the generateRiderMagicLink call of each rider
    mpc,            \* position of each verifyMagicLink call
    mTok,           \* the token it was given
    mSessions,      \* rider sessions returned per magic-link token (history)
    swept,          \* whether the periodic cleanup task has run
    win,            \* an unlock token minted at 0 under a configuration, the seconds
                    \* elapsed since, and what verifying it returned
    unlockFrom      \* the state requestUnlock read from the slot it set to unlocking

orchVars == <<slotState, slotOrder, slotActive, orderStatus, orderSlot, resv,
              resvTTL, timers, mqttConnected, rate, uResult, pc, aOrder, aSlot, aResult,
              aHeld, aLog>>
tokVars == <<now, nextJti, tokens, handed, jtiExp, jtiStored, gpc, gTok, vpc,
             vTok, vShelf, vClock, vResult, okCount>>
staffVars == <<eResult>>
mqttVars == <<subscriptions, brokerSubs, mqttPending, resub, dispatched>>
deviceVars == <<inbound, deviceLog, tamper>>
rateVars == <<rateTTL>>
magicVars == <<magicStored, magicHanded, magicPc, mpc, mTok, mSessions>>
sweepVars == <<swept>>
windowVars == <<win>>
unlockVars == <<unlockFrom>>
extVars == <<staffVars, mqttVars, deviceVars, rateVars, magicVars, sweepVars, windowVars, unlockVars>>
vars == <<orchVars, tokVars, extVars>>


\* ------------------------------------------------------------ durable store

\* getOrder: the row of the order, None when there is none.
getOrder(o) == IF o \in Orders THEN o ELSE None

\* getSlot: the row of the slot, None when there is none.
getSlot(s) == IF s \in Slots THEN s ELSE None

\* updateSlotState(slotId, state, orderId?): writes the state; writes the
\* order binding when one is passed; a slot written `empty` holds no order.
updateSlotState(s, st, o) ==
    /\ slotState' = [slotState EXCEPT ![s] = st]
    /\ slotOrder' = [slotOrder EXCEPT ![s] =
                        IF o /= None THEN o ELSE IF st = "empty" THEN None ELSE @]

\* updateOrderStatus(orderId, status, slotId?): writes the status, and the
\* slot the order is bound to when one is passed.
updateOrderStatus(o, st, s) ==
    /\ orderStatus' = [orderStatus EXCEPT ![o] = st]
    /\ orderSlot' = [orderSlot EXCEPT ![o] = IF s /= None THEN s ELSE @]

\* The lowest-index slot among a non-empty set of slots.
LowestIndex(S) == CHOOSE s \in S : \A q \in S : SlotIndex(s) <= SlotIndex(q)

\* findAvailableSlot: the next empty, active slot of the site that is under
\* no outstanding reservation; None when there is none.
findAvailableSlot ==
    LET free == {s \in Slots : slotState[s] = "empty" /\ slotActive[s] /\ resv[s] = None}
    IN  IF free = {} THEN None ELSE LowestIndex(free)

\* getOrderAssignedSlot: the slot row that references the order.
getOrderAssignedSlot(o) ==
    LET bound == {s \in Slots : slotOrder[s] = o}
    IN  IF bound = {} THEN None ELSE LowestIndex(bound)

\* verifyRiderForOrder: the check delegated to the delivery platform (the
\* source's placeholder accepts every rider).
verifyRiderForOrder(r, o) == r \in AuthorizedRiders

\* The user ids a caller may give: staff1 has a second-factor secret,
\* staff2 has none, ghost is in no row of the users table.
Staff == {"staff1", "staff2", "ghost"}
KnownStaff == {"staff1", "staff2"}
StaffWithSecret == {"staff1"}

\* verifyStepUpAuth: the user exists, has a TOTP secret, and the code is the
\* current one of that secret.
verifyStepUpAuth(staff, totp) ==
    /\ staff \in KnownStaff
    /\ staff \in StaffWithSecret
    /\ totp = "good"

\* What verifyStepUpAuth writes to the security log (logSecurityEvent, lines
\* 377-381): nothing when the user is unknown or has no secret.
stepUpSecurityLog(staff, totp) ==
    IF staff \notin KnownStaff \/ staff \notin StaffWithSecret THEN <<>>
    ELSE IF totp = "good" THEN <<"step_up_auth_success">>
    ELSE <<"step_up_auth_failed">>

\* ---------------------------------------------------------- RedisService

\* setNX of reserveSlot: succeeds only when the key is absent.
setNXSucceeds(s) == resv[s] = None

\* A releaseSlot that returns without deleting the key.
releaseSlotKeepsKey(s) == UNCHANGED <<resv, resvTTL>>

\* releaseSlot: del of the reservation key, whoever holds it.
releaseSlot(s) ==
    /\ resv' = [resv EXCEPT ![s] = None]
    /\ resvTTL' = [resvTTL EXCEPT ![s] = FALSE]

\* ------------------------------------------------------ assignOrderToSlot

\* A validation that forgets the tenant of the caller.
assignPreconditionsAnyTenant(o, t) ==
    /\ getOrder(o) /= None
    /\ orderStatus[o] = "prepared"

\* The validation of the order (lines 152-163).
assignPreconditions(o, t) ==
    /\ getOrder(o) /= None
    /\ orderStatus[o] = "prepared"
    /\ OrderTenant(o) = t

\* The slot selection (lines 166-180): None when it throws.
assignTarget(pref) ==
    IF pref /= None
    THEN IF getSlot(pref) /= None /\ slotState[pref] = "empty" /\ slotActive[pref]
         THEN pref ELSE None
    ELSE findAvailableSlot

assignLocals == <<aOrder, aSlot>>
storeRows == <<slotState, slotOrder, slotActive, orderStatus, orderSlot>>
redisSlot == <<resv, resvTTL>>

\* The call returns `result`; `held` records whether the reservation key of
\* its slot exists at that moment and `log` what the call has sent out.
assignReturns(p, result, held, log) ==
    /\ pc' = [pc EXCEPT ![p] = "done"]
    /\ aResult' = [aResult EXCEPT ![p] = result]
    /\ aHeld' = [aHeld EXCEPT ![p] = held]
    /\ aLog' = [aLog EXCEPT ![p] = log]

assignGoto(p, label) ==
    /\ pc' = [pc EXCEPT ![p] = label]
    /\ UNCHANGED <<aResult, aHeld, aLog>>

\* A call starts: validates the order and picks the slot.
assignOrderToSlot_validate(p, o, t, pref) ==
    /\ pc[p] = "idle"
    /\ IF assignPreconditions(o, t) /\ assignTarget(pref) /= None
       THEN /\ aOrder' = [aOrder EXCEPT ![p] = o]
            /\ aSlot' = [aSlot EXCEPT ![p] = assignTarget(pref)]
            /\ assignGoto(p, "reserve")
       ELSE /\ assignReturns(p, "precondition", FALSE, <<>>)
            /\ UNCHANGED assignLocals
    /\ UNCHANGED <<storeRows, redisSlot, timers, mqttConnected, rate, uResult, tokVars>>
    /\ UNCHANGED extVars

\* reserveSlot, first await: setNX.
assignOrderToSlot_setNX(p) ==
    /\ pc[p] = "reserve"
    /\ IF setNXSucceeds(aSlot[p])
       THEN /\ resv' = [resv EXCEPT ![aSlot[p]] = aOrder[p]]
            /\ assignGoto(p, "expire")
       ELSE /\ assignReturns(p, "contention", FALSE, <<>>)
            /\ UNCHANGED resv
    /\ UNCHANGED <<storeRows, resvTTL, assignLocals, timers, mqttConnected, rate, uResult, tokVars>>
    /\ UNCHANGED extVars

\* reserveSlot, second await: expire sets the TTL of whatever key is there.
assignOrderToSlot_expire(p) ==
    /\ pc[p] = "expire"
    /\ resvTTL' = [resvTTL EXCEPT ![aSlot[p]] = (resv[aSlot[p]] /= None)]
    /\ assignGoto(p, "updSlot")
    /\ UNCHANGED <<storeRows, resv, assignLocals, timers, mqttConnected, rate, uResult, tokVars>>
    /\ UNCHANGED extVars

\* A redis call of reserveSlot throws: the outer catch returns the failure.
assignOrderToSlot_reserveThrows(p) ==
    /\ pc[p] \in {"reserve", "expire"}
    /\ assignReturns(p, "failed_reserve", resv[aSlot[p]] /= None, <<>>)
    /\ UNCHANGED <<storeRows, redisSlot, assignLocals, timers, mqttConnected, rate, uResult, tokVars>>
    /\ UNCHANGED extVars

\* updateSlotState(targetSlot.id, 'reserved', order.id)
assignOrderToSlot_updateSlot(p) ==
    /\ pc[p] = "updSlot"
    /\ updateSlotState(aSlot[p], "reserved", aOrder[p])
    /\ assignGoto(p, "updOrder")
    /\ UNCHANGED <<slotActive, orderStatus, orderSlot, redisSlot, assignLocals,
                   timers, mqttConnected, rate, uResult, tokVars>>
    /\ UNCHANGED extVars

\* updateOrderStatus(order.id, 'assigned', targetSlot.id)
assignOrderToSlot_updateOrder(p) ==
    /\ pc[p] = "updOrder"
    /\ updateOrderStatus(aOrder[p], "assigned", aSlot[p])
    /\ assignGoto(p, "lock")
    /\ UNCHANGED <<slotState, slotOrder, slotActive, redisSlot, assignLocals,
                   timers, mqttConnected, rate, uResult, tokVars>>
    /\ UNCHANGED extVars

\* generateOrderQRCode, generateOrderOTP, the slot_assigned ledger event and
\* DeviceService.sendSlotLockCommand -> MQTTService.publishCommand, none of
\* which throws: the call returns success.  publishCommand throws when the
\* client is not connected.
assignOrderToSlot_lock(p) ==
    /\ pc[p] = "lock"
    /\ mqttConnected
    /\ assignReturns(p, "success", FALSE, <<"slot_assigned", "lock_slot">>)
    /\ UNCHANGED <<storeRows, redisSlot, assignLocals, timers, mqttConnected, rate, uResult, tokVars>>
    /\ UNCHANGED extVars

\* Whether the await the call is at throws now: a store, cache or ledger call
\* may always throw; the lock command throws for certain when the client is
\* not connected.
innerTryThrows(p) ==
    \/ pc[p] \in {"updSlot", "updOrder"}
    \/ pc[p] = "lock"

\* What the call has sent out when its inner try throws: nothing, or, when
\* it is sendSlotLockCommand that throws, the slot_assigned event written
\* just before it.
innerTryLogs(p) == IF pc[p] = "lock" THEN {<<>>, <<"slot_assigned">>} ELSE {<<>>}

\* The inner catch: releaseSlot, then the outer catch returns the failure.
rollbackRelease(p, log) ==
    /\ releaseSlot(aSlot[p])
    /\ assignReturns(p, "failed", resv'[aSlot[p]] /= None, log)

\* A step of the inner try throws and the catch releases the reservation.
assignOrderToSlot_rollback(p) ==
    /\ innerTryThrows(p)
    /\ \E log \in innerTryLogs(p) : rollbackRelease(p, log)
    /\ UNCHANGED <<storeRows, assignLocals, timers, mqttConnected, rate, uResult, tokVars>>
    /\ UNCHANGED extVars

\* A step of the inner try throws and releaseSlot throws too: the failure is
\* returned with the key in place.
assignOrderToSlot_rollbackThrows(p) ==
    /\ innerTryThrows(p)
    /\ \E log \in innerTryLogs(p) :
          assignReturns(p, "failed_release", resv[aSlot[p]] /= None, log)
    /\ UNCHANGED <<storeRows, redisSlot, assignLocals, timers, mqttConnected, rate, uResult, tokVars>>
    /\ UNCHANGED extVars

\* The caller has its result; the process may serve the next request.
assignOrderToSlot_done(p) ==
    /\ pc[p] = "done"
    /\ pc' = [pc EXCEPT ![p] = "idle"]
    /\ aOrder' = [aOrder EXCEPT ![p] = None]
    /\ aSlot' = [aSlot EXCEPT ![p] = None]
    /\ aResult' = [aResult EXCEPT ![p] = None]
    /\ aHeld' = [aHeld EXCEPT ![p] = FALSE]
    /\ aLog' = [aLog EXCEPT ![p] = <<>>]
    /\ UNCHANGED <<storeRows, redisSlot, timers, mqttConnected, rate, uResult, tokVars>>
    /\ UNCHANGED extVars


\* ------------------------------------------------------------ AuthService

\* The claim set generateUnlockToken signs (iat = nbf = now).
unlockTokenPayload(o, r, s) ==
    [jti |-> nextJti, tenantId |-> OrderTenant(o), siteId |-> SlotSite(s),
     shelfId |-> SlotShelf(s), slotId |-> s, orderId |-> o,
     riderId |-> r, nbf |-> now, exp |-> now + unlockTokenTTL]

\* RedisService.storeUnlockTokenJti: setEx(key, ttl, '1').
storeUnlockTokenJti(j, ttl) ==
    /\ jtiExp' = [jtiExp EXCEPT ![j] = now + ttl]
    /\ jtiStored' = jtiStored \cup {j}

\* A token signed and returned without its jti being registered.
generateUnlockTokenUnregistered(o, r, s) ==
    /\ tokens' = tokens \cup {unlockTokenPayload(o, r, s)}
    /\ nextJti' = nextJti + 1
    /\ UNCHANGED <<jtiExp, jtiStored>>

\* generateUnlockToken as one step of a caller that does not interleave
\* inside it: sign, register the jti, return the token.
generateUnlockToken(o, r, s) ==
    /\ tokens' = tokens \cup {unlockTokenPayload(o, r, s)}
    /\ nextJti' = nextJti + 1
    /\ storeUnlockTokenJti(nextJti, unlockTokenTTL + jtiTTLBuffer)

tokenProcs == <<gpc, gTok, vpc, vTok, vShelf, vClock, vResult, okCount>>
assignProcs == <<pc, aOrder, aSlot, aResult, aHeld, aLog>>

\* The generateUnlockToken call as a process: sign (lines 238-262) ...
generateUnlockToken_sign(o, r, s) ==
    /\ gpc = "idle"
    /\ nextJti <= MaxJti
    /\ Cardinality(tokens) < MaxSigned
    /\ now \in IssueInstants
    /\ gTok' = unlockTokenPayload(o, r, s)
    /\ tokens' = tokens \cup {unlockTokenPayload(o, r, s)}
    /\ nextJti' = nextJti + 1
    /\ gpc' = "store"
    /\ UNCHANGED <<orchVars, now, handed, jtiExp, jtiStored, vpc, vTok, vShelf,
                   vClock, vResult, okCount>>
    /\ UNCHANGED extVars

\* ... then await storeUnlockTokenJti (line 265) and return the token.
generateUnlockToken_store ==
    /\ gpc = "store"
    /\ storeUnlockTokenJti(gTok.jti, unlockTokenTTL + jtiTTLBuffer)
    /\ handed' = handed \cup {gTok.jti}
    /\ gpc' = "idle"
    /\ gTok' = None
    /\ UNCHANGED <<orchVars, now, nextJti, tokens, vpc, vTok, vShelf, vClock,
                   vResult, okCount>>
    /\ UNCHANGED extVars

\* A catch that swallows the failure of storeUnlockTokenJti and returns the
\* signed token all the same.
generateUnlockToken_storeThrowsSwallowed ==
    /\ gpc = "store"
    /\ handed' = handed \cup {gTok.jti}
    /\ gpc' = "idle"
    /\ gTok' = None
    /\ UNCHANGED <<orchVars, now, nextJti, tokens, jtiExp, jtiStored,
                   vpc, vTok, vShelf, vClock, vResult, okCount>>
    /\ UNCHANGED extVars

\* storeUnlockTokenJti throws (or the process dies): the catch rethrows and
\* the signed token is dropped.
generateUnlockToken_storeThrows ==
    /\ gpc = "store"
    /\ gpc' = "idle"
    /\ gTok' = None
    /\ UNCHANGED <<orchVars, now, nextJti, tokens, handed, jtiExp, jtiStored,
                   vpc, vTok, vShelf, vClock, vResult, okCount>>
    /\ UNCHANGED extVars

\* A jwt.verify called with ignoreExpiration: only nbf is checked.
jwtTimeClaimsIgnoreExpiration(tok, clock) ==
    ~(tok.nbf > clock + clockSkewToleranceSeconds)

\* jwt.verify's time claims with clockTolerance: NotBeforeError when
\* nbf > clock + tolerance, TokenExpiredError when clock >= exp + tolerance.
jwtTimeClaimsOk(tok, clock) ==
    /\ ~(tok.nbf > clock + clockSkewToleranceSeconds)
    /\ ~(clock >= tok.exp + clockSkewToleranceSeconds)

\* jwt.verify checks the signature first: only a payload the service
\* signed passes.
signatureValid(tok) == tok \in tokens

\* A token the service never signed, presented by an attacker.
ForgedTokens ==
    {[jti |-> 1, tenantId |-> "T1", siteId |-> "site1", shelfId |-> "A",
      slotId |-> "S1", orderId |-> "O2", riderId |-> "R2", nbf |-> 0,
      exp |-> unlockTokenTTL]}

\* The error jwt.verify throws for the time claims: nbf is checked first.
jwtError(tok, clock) ==
    IF tok.nbf > clock + clockSkewToleranceSeconds THEN "jwt not active" ELSE "jwt expired"

\* No call of the verifier has returned yet.
NoResult == [event |-> None, error |-> None]

\* An audience check that accepts every shelf.
shelfMatchesAny(tok, shelf) == tok.shelfId \in Shelves

\* The audience check of line 292.
shelfMatches(tok, shelf) == tok.shelfId = shelf

\* RedisService.verifyUnlockTokenJti: exists(key) === 1.
verifyUnlockTokenJti(j) == now < jtiExp[j]

\* RedisService.consumeUnlockTokenJti: del(key).
consumeUnlockTokenJti(j) == jtiExp' = [jtiExp EXCEPT ![j] = 0]

\* The call returns: `event` is the security event it logged and `error`
\* the message of the error caught, if any (only unlock_token_verified
\* comes with the claims, every other with null).
verifierReturns(v, event, error) ==
    /\ vpc' = [vpc EXCEPT ![v] = "idle"]
    /\ vResult' = [vResult EXCEPT ![v] = [event |-> event, error |-> error]]
    /\ vTok' = [vTok EXCEPT ![v] = None]
    /\ vShelf' = [vShelf EXCEPT ![v] = None]
    /\ vClock' = [vClock EXCEPT ![v] = 0]

\* A verifier that deletes the jti of a token it refuses for the wrong shelf.
verifyUnlockToken_checkBurnsOnWrongShelf(v, tok, shelf, drift) ==
    /\ vpc[v] = "idle"
    /\ IF ~signatureValid(tok)
       THEN /\ verifierReturns(v, "unlock_token_verification_failed", "invalid signature")
            /\ UNCHANGED jtiExp
       ELSE IF ~jwtTimeClaimsOk(tok, now + drift)
       THEN /\ verifierReturns(v, "unlock_token_verification_failed",
                               jwtError(tok, now + drift))
            /\ UNCHANGED jtiExp
       ELSE IF ~shelfMatches(tok, shelf)
       THEN /\ verifierReturns(v, "unlock_token_wrong_shelf", None)
            /\ consumeUnlockTokenJti(tok.jti)
       ELSE IF ~verifyUnlockTokenJti(tok.jti)
       THEN /\ verifierReturns(v, "unlock_token_replay_attempt", None)
            /\ UNCHANGED jtiExp
       ELSE /\ vpc' = [vpc EXCEPT ![v] = "consume"]
            /\ vTok' = [vTok EXCEPT ![v] = tok]
            /\ vShelf' = [vShelf EXCEPT ![v] = shelf]
            /\ vClock' = [vClock EXCEPT ![v] = now + drift]
            /\ vResult' = [vResult EXCEPT ![v] = NoResult]
            /\ UNCHANGED jtiExp
    /\ UNCHANGED <<orchVars, now, nextJti, tokens, handed, jtiStored,
                   gpc, gTok, okCount>>
    /\ UNCHANGED extVars

\* verifyUnlockToken up to its first await: jwt.verify, the audience check
\* and the exists() of the jti.
verifyUnlockToken_check(v, tok, shelf, drift) ==
    /\ vpc[v] = "idle"
    /\ IF ~signatureValid(tok)
       THEN verifierReturns(v, "unlock_token_verification_failed", "invalid signature")
       ELSE IF ~jwtTimeClaimsOk(tok, now + drift)
       THEN verifierReturns(v, "unlock_token_verification_failed",
                            jwtError(tok, now + drift))
       ELSE IF ~shelfMatches(tok, shelf)
       THEN verifierReturns(v, "unlock_token_wrong_shelf", None)
       ELSE IF ~verifyUnlockTokenJti(tok.jti)
       THEN verifierReturns(v, "unlock_token_replay_attempt", None)
       ELSE /\ vpc' = [vpc EXCEPT ![v] = "consume"]
            /\ vTok' = [vTok EXCEPT ![v] = tok]
            /\ vShelf' = [vShelf EXCEPT ![v] = shelf]
            /\ vClock' = [vClock EXCEPT ![v] = now + drift]
            /\ vResult' = [vResult EXCEPT ![v] = NoResult]
    /\ UNCHANGED <<orchVars, now, nextJti, tokens, handed, jtiExp, jtiStored,
                   gpc, gTok, okCount>>
    /\ UNCHANGED extVars

\* ... then await consumeUnlockTokenJti (line 312) and return the claims.
verifyUnlockToken_consume(v) ==
    /\ vpc[v] = "consume"
    /\ consumeUnlockTokenJti(vTok[v].jti)
    /\ okCount' = [okCount EXCEPT ![vTok[v].jti] = @ + 1]
    /\ verifierReturns(v, "unlock_token_verified", None)
    /\ UNCHANGED <<orchVars, now, nextJti, tokens, handed, jtiStored, gpc, gTok>>
    /\ UNCHANGED extVars

\* consumeUnlockTokenJti throws: the catch returns null.
verifyUnlockToken_consumeThrows(v) ==
    /\ vpc[v] = "consume"
    /\ verifierReturns(v, "unlock_token_verification_failed", "store error")
    /\ UNCHANGED <<orchVars, now, nextJti, tokens, handed, jtiExp, jtiStored,
                   gpc, gTok, okCount>>
    /\ UNCHANGED extVars

\* Time passes.
tick ==
    /\ \E t \in Instants : t > now /\ now' = t
    /\ UNCHANGED <<orchVars, nextJti, tokens, handed, jtiExp, jtiStored,
                   tokenProcs>>
    /\ UNCHANGED extVars

\* ---------------------------------------------------------- requestUnlock

\* RedisService.incrementRateLimit: INCR of the rider's counter.
incrementRateLimit(r) == rate[r] + 1

\* Early returns that do not look at the state of the slot.
requestUnlockPreconditionAnyState(o) ==
    IF getOrder(o) = None THEN "Order not found"
    ELSE IF orderStatus[o] /= "assigned" THEN "Order status is not valid for pickup"
    ELSE IF getOrderAssignedSlot(o) = None THEN "No slot assigned to this order"
    ELSE None

\* The early returns of lines 264-281: the error the call returns when a
\* precondition fails, None when all hold.
requestUnlockPrecondition(o) ==
    IF getOrder(o) = None THEN "Order not found"
    ELSE IF orderStatus[o] /= "assigned" THEN "Order status is not valid for pickup"
    ELSE IF getOrderAssignedSlot(o) = None THEN "No slot assigned to this order"
    ELSE IF slotState[getOrderAssignedSlot(o)] \notin {"reserved", "occupied"}
    THEN "Slot state is not valid for unlock"
    ELSE None

\* What a requestUnlock call hands back: its error (None on success), the
\* jti of the token it returns (0: no token) and the ledger events it wrote.
unlockResult(error, jti, events) == [error |-> error, jti |-> jti, events |-> events]

\* A ledger write that files every rejection under one event type.
loggedAsUnauthorized(outcome, error, jti, type) ==
    IF outcome = "log_throws"
    THEN unlockResult("Internal server error", 0, <<>>)
    ELSE unlockResult(error, jti, <<"unauthorized_unlock_attempt">>)

\* A ledger write inside requestUnlock: the event is appended and the call
\* returns `error`, or logEvent throws and the catch returns the internal
\* error with nothing appended.
loggedOrThrows(outcome, error, jti, type) ==
    IF outcome = "log_throws"
    THEN unlockResult("Internal server error", 0, <<>>)
    ELSE unlockResult(error, jti, <<type>>)

\* requestUnlock(request).  `outcome` names the await that throws, if any.
requestUnlock(o, r, outcome) ==
    LET slot == getOrderAssignedSlot(o)
        attempts == incrementRateLimit(r)
    IN  IF requestUnlockPrecondition(o) /= None
        THEN /\ uResult' = unlockResult(requestUnlockPrecondition(o), 0, <<>>)
             /\ UNCHANGED <<storeRows, redisSlot, timers, mqttConnected, rate,
                            assignProcs, tokVars, extVars>>
        ELSE IF outcome = "expire_throws" /\ attempts = 1
        THEN /\ rate' = [rate EXCEPT ![r] = attempts]
             /\ uResult' = unlockResult("Internal server error", 0, <<>>)
             /\ UNCHANGED <<storeRows, redisSlot, timers, mqttConnected,
                            assignProcs, tokVars, extVars>>
        ELSE /\ attempts <= maxUnlockAttempts + MaxOver
             /\ rate' = [rate EXCEPT ![r] = attempts]
             /\ rateTTL' = [rateTTL EXCEPT ![r] = IF attempts = 1 THEN TRUE ELSE @]
             /\ IF attempts > maxUnlockAttempts
                THEN /\ uResult' = loggedOrThrows(outcome, "Too many unlock attempts",
                                                  0, "unlock_rate_limited")
                     /\ UNCHANGED <<slotState, slotOrder, now, nextJti, tokens,
                                    handed, jtiExp, jtiStored, unlockFrom>>
                ELSE IF ~verifyRiderForOrder(r, o)
                THEN /\ uResult' = loggedOrThrows(outcome, "Rider not authorized for this order",
                                                  0, "unauthorized_unlock_attempt")
                     /\ UNCHANGED <<slotState, slotOrder, now, nextJti, tokens,
                                    handed, jtiExp, jtiStored, unlockFrom>>
                ELSE IF outcome = "token_throws"
                THEN /\ uResult' = unlockResult("Internal server error", 0, <<>>)
                     /\ UNCHANGED <<slotState, slotOrder, now, nextJti, tokens,
                                    handed, jtiExp, jtiStored, unlockFrom>>
                ELSE /\ nextJti <= MaxJti
                     /\ generateUnlockToken(o, r, slot)
                     /\ IF outcome = "slot_throws"
                        THEN /\ UNCHANGED <<slotState, slotOrder, unlockFrom>>
                             /\ uResult' = unlockResult("Internal server error", 0, <<>>)
                        ELSE /\ updateSlotState(slot, "unlocking", None)
                             /\ unlockFrom' = [unlockFrom EXCEPT ![slot] = slotState[slot]]
                             /\ uResult' = loggedOrThrows(outcome, None, nextJti,
                                                          "unlock_requested")
                     /\ handed' = IF outcome = "ok" THEN handed \cup {nextJti} ELSE handed
                     /\ UNCHANGED now
             /\ UNCHANGED <<slotActive, orderStatus, orderSlot, redisSlot, timers,
                            mqttConnected, assignProcs, tokenProcs, staffVars, mqttVars,
                            deviceVars, magicVars, sweepVars, windowVars>>

\* The rider's rate-limit key, if it carries an expiry, expires at the end of
\* its window.
rateLimitWindowExpires(r) ==
    /\ rate[r] > 0
    /\ rateTTL[r]
    /\ rate' = [rate EXCEPT ![r] = 0]
    /\ rateTTL' = [rateTTL EXCEPT ![r] = FALSE]
    /\ UNCHANGED <<uResult, storeRows, redisSlot, timers, mqttConnected, assignProcs, tokVars>>
    /\ UNCHANGED <<staffVars, mqttVars, deviceVars, magicVars, sweepVars, windowVars, unlockVars>>

\* ---------------------------------------------------------- confirmUnlock

\* confirmUnlock(slotId, orderId, riderId): `outcome` names the await that
\* throws, if any; the reset timer is set only when none does.
confirmUnlock(s, o, outcome) ==
    /\ updateSlotState(s, "open", None)
    /\ IF outcome = "order_throws"
       THEN UNCHANGED <<orderStatus, orderSlot>>
       ELSE updateOrderStatus(o, "picked_up", None)
    /\ IF outcome = "ok"
       THEN /\ timers[s] < MaxTimers
            /\ timers' = [timers EXCEPT ![s] = @ + 1]
       ELSE UNCHANGED timers
    /\ UNCHANGED <<slotActive, redisSlot, mqttConnected, rate, uResult, assignProcs, tokVars>>
    /\ UNCHANGED extVars

\* ---------------------------------------------------- handleUnlockFailure

\* A failure handler that frees the slot of the failed attempt.
unlockFailureStateEmpties(st) == IF st = "unlocking" THEN "empty" ELSE st

\* newState of line 422: an unlocking slot goes back to occupied, any other
\* state is written back as it was read.
unlockFailureState(st) == IF st = "unlocking" THEN "occupied" ELSE st

\* handleUnlockFailure(slotId, orderId, riderId, reason) for a slot that
\* exists; the unlock_failed event changes nothing of the state kept here.
handleUnlockFailure(s) ==
    /\ updateSlotState(s, unlockFailureState(slotState[s]), None)
    /\ UNCHANGED <<slotActive, orderStatus, orderSlot, redisSlot, timers,
                   mqttConnected, rate, uResult, assignProcs, tokVars>>
    /\ UNCHANGED extVars

\* -------------------------------------------------------- emergencyUnlock

\* What an emergencyUnlock call hands back: its boolean result, the ledger
\* events it wrote, the lines verifyStepUpAuth put in the security log and
\* the device commands it published.
emergencyResult(ok, ledger, seclog, commands) ==
    [ok |-> ok, ledger |-> ledger, seclog |-> seclog, commands |-> commands]

\* The emergency_unlock event of lines 470-479.
emergencyUnlockEvent(s, staff, reason) ==
    [type |-> "emergency_unlock", slotId |-> s, userId |-> staff, reason |-> reason]

\* The command of DeviceService.sendEmergencyUnlockCommand.
emergencyUnlockCommand(s) ==
    [type |-> "emergency_unlock", deviceId |-> SlotShelf(s), slotId |-> s]

\* The awaits of emergencyUnlock that may throw after the step-up check.
EmergencyOutcomes == {"ok", "command_throws", "slot_throws", "log_throws"}

\* An override that skips the step-up check.
emergencyUnlockNoStepUp(s, staff, totp, reason, outcome) ==
    /\ getSlot(s) /= None
    /\ mqttConnected
    /\ updateSlotState(s, "open", None)
    /\ eResult' = emergencyResult(TRUE, <<emergencyUnlockEvent(s, staff, reason)>>,
                                  stepUpSecurityLog(staff, totp),
                                  <<emergencyUnlockCommand(s)>>)
    /\ UNCHANGED <<slotActive, orderStatus, orderSlot, redisSlot, timers,
                   mqttConnected, rate, uResult, assignProcs, tokVars,
                       mqttVars, deviceVars, rateVars, magicVars, sweepVars, windowVars, unlockVars>>

\* emergencyUnlock(slotId, staffId, reason, totpCode).  `outcome` names the
\* await that throws, if any; publishCommand throws by itself while the
\* client is not connected.  Every failure returns false.
emergencyUnlock(s, staff, totp, reason, outcome) ==
    LET seclog == stepUpSecurityLog(staff, totp)
    IN  /\ IF ~verifyStepUpAuth(staff, totp) \/ getSlot(s) = None
           THEN /\ eResult' = emergencyResult(FALSE, <<>>, seclog, <<>>)
                /\ UNCHANGED <<slotState, slotOrder>>
           ELSE IF ~mqttConnected \/ outcome = "command_throws"
           THEN /\ eResult' = emergencyResult(FALSE, <<>>, seclog, <<>>)
                /\ UNCHANGED <<slotState, slotOrder>>
           ELSE IF outcome = "slot_throws"
           THEN /\ eResult' = emergencyResult(FALSE, <<>>, seclog,
                                              <<emergencyUnlockCommand(s)>>)
                /\ UNCHANGED <<slotState, slotOrder>>
           ELSE /\ updateSlotState(s, "open", None)
                /\ eResult' =
                      IF outcome = "log_throws"
                      THEN emergencyResult(FALSE, <<>>, seclog,
                                           <<emergencyUnlockCommand(s)>>)
                      ELSE emergencyResult(TRUE, <<emergencyUnlockEvent(s, staff, reason)>>,
                                           seclog, <<emergencyUnlockCommand(s)>>)
        /\ UNCHANGED <<slotActive, orderStatus, orderSlot, redisSlot, timers,
                       mqttConnected, rate, uResult, assignProcs, tokVars,
                       mqttVars, deviceVars, rateVars, magicVars, sweepVars, windowVars, unlockVars>>

\* An override that goes through: the calls of a staff member with a valid
\* code that return true.
emergencyOverride(s) ==
    /\ emergencyUnlock(s, "staff1", "good", "jammed", "ok")
    /\ eResult'.ok

\* --------------------------------------------------- resetSlotAfterPickup

\* The awaits of resetSlotAfterPickup that may throw; the catch of lines
\* 568-570 logs the error and nothing retries.
ResetOutcomes == {"ok", "slot_throws", "release_throws"}

\* The timer of confirmUnlock fires.  `outcome` names the await that
\* throws, if any: updateSlotState (line 561) or releaseSlot (line 564).
resetSlotAfterPickup(s, outcome) ==
    /\ timers[s] > 0
    /\ timers' = [timers EXCEPT ![s] = @ - 1]
    /\ IF slotState[s] = "open" /\ outcome /= "slot_throws"
       THEN /\ updateSlotState(s, "empty", None)
            /\ IF outcome = "ok" THEN releaseSlot(s) ELSE UNCHANGED redisSlot
       ELSE UNCHANGED <<slotState, slotOrder, redisSlot>>
    /\ UNCHANGED <<slotActive, orderStatus, orderSlot, mqttConnected, rate, uResult,
                   assignProcs, tokVars>>
    /\ UNCHANGED extVars

\* ----------------------------------------------------------- MQTTService

\* Topic patterns and topics are strings: sequences of characters.
Patterns == {<<"a", "/", "b">>, <<"a", "/", "+">>, <<"+", "/", "b">>, <<"a">>}
Topics == {<<"a", "/", "b">>, <<"a", "/", "c">>, <<"a">>, <<"a", "/">>, <<"a", "/", "b", "/", "c">>}

\* String.prototype.split('/'): the levels of a string, empty levels kept.
RECURSIVE split(_)
split(str) ==
    IF str = <<>> THEN << <<>> >>
    ELSE LET init == split(SubSeq(str, 1, Len(str) - 1))
             c == str[Len(str)]
         IN  IF c = "/" THEN Append(init, <<>>)
             ELSE [init EXCEPT ![Len(init)] = Append(@, c)]

topicMatches(topic, pattern) ==
    LET topicParts == split(topic)
        patternParts == split(pattern)
    IN  /\ Len(patternParts) = Len(topicParts)
        /\ \A i \in 1..Len(patternParts) :
              patternParts[i] = <<"+">> \/ patternParts[i] = topicParts[i]

Range(f) == {f[i] : i \in DOMAIN f}

\* Map.set and Map.delete on the keys of the Map: a key already present keeps
\* its place.
mapSet(reg, p) == IF p \in Range(reg) THEN reg ELSE Append(reg, p)
mapDelete(reg, p) == SelectSeq(reg, LAMBDA x : x /= p)

\* The Map's live iterator: an entry added while resubscribeToTopics runs is
\* visited, an entry deleted before its turn is not.
iteratorAfterSet(p) ==
    IF resub.running /\ p \notin Range(subscriptions)
    THEN [resub EXCEPT !.todo = Append(@, p)] ELSE resub
iteratorAfterDelete(p) == [resub EXCEPT !.todo = mapDelete(@, p)]

\* Calls awaiting the broker in one behaviour.
MaxPending == 2

mqttFrame == UNCHANGED <<orchVars, tokVars, staffVars, deviceVars, rateVars, magicVars, sweepVars, windowVars, unlockVars>>

\* subscribe(topicPattern, callback), up to its await.
subscribe_call(p) ==
    /\ IF ~mqttConnected
       THEN /\ subscriptions' = mapSet(subscriptions, p)
            /\ resub' = iteratorAfterSet(p)
            /\ UNCHANGED <<brokerSubs, mqttPending>>
       ELSE /\ Len(mqttPending) < MaxPending
            /\ brokerSubs' = brokerSubs \cup {p}
            /\ mqttPending' = Append(mqttPending, [op |-> "subscribe", pattern |-> p])
            /\ UNCHANGED <<subscriptions, resub>>
    /\ UNCHANGED dispatched
    /\ mqttFrame

\* unsubscribe(topicPattern), up to its await.
unsubscribe_call(p) ==
    /\ IF mqttConnected
       THEN /\ Len(mqttPending) < MaxPending
            /\ brokerSubs' = brokerSubs \ {p}
            /\ mqttPending' = Append(mqttPending, [op |-> "unsubscribe", pattern |-> p])
            /\ UNCHANGED <<subscriptions, resub>>
       ELSE /\ subscriptions' = mapDelete(subscriptions, p)
            /\ resub' = iteratorAfterDelete(p)
            /\ UNCHANGED <<brokerSubs, mqttPending>>
    /\ UNCHANGED dispatched
    /\ mqttFrame

\* The broker acknowledges the oldest pending call, which resumes after its
\* await: subscribe sets the entry, unsubscribe deletes it.
mqttAck ==
    /\ mqttPending /= <<>>
    /\ LET call == Head(mqttPending)
       IN  IF call.op = "subscribe"
           THEN /\ subscriptions' = mapSet(subscriptions, call.pattern)
                /\ resub' = iteratorAfterSet(call.pattern)
           ELSE /\ subscriptions' = mapDelete(subscriptions, call.pattern)
                /\ resub' = iteratorAfterDelete(call.pattern)
    /\ mqttPending' = Tail(mqttPending)
    /\ UNCHANGED <<brokerSubs, dispatched>>
    /\ mqttFrame

\* One turn of the loop of resubscribeToTopics: the next entry of the Map is
\* subscribed at the broker, or the loop ends.
resubscribeToTopics_step ==
    /\ resub.running
    /\ IF resub.todo = <<>>
       THEN /\ resub' = [running |-> FALSE, todo |-> <<>>]
            /\ UNCHANGED brokerSubs
       ELSE /\ brokerSubs' = brokerSubs \cup {Head(resub.todo)}
            /\ resub' = [resub EXCEPT !.todo = Tail(@)]
    /\ UNCHANGED <<subscriptions, mqttPending, dispatched>>
    /\ mqttFrame

\* The callbacks handleMessage invokes for a topic, in the order of the Map;
\* a callback that throws ends the loop.
RECURSIVE invoked(_, _, _)
invoked(reg, topic, throwers) ==
    IF reg = <<>> THEN <<>>
    ELSE IF ~topicMatches(topic, Head(reg)) THEN invoked(Tail(reg), topic, throwers)
    ELSE IF Head(reg) \in throwers THEN <<Head(reg)>>
    ELSE <<Head(reg)>> \o invoked(Tail(reg), topic, throwers)

\* handleMessage(topic, payload): parses says whether the payload is JSON,
\* throwers are the patterns whose callback throws on this message.
handleMessage(topic, parses, throwers) ==
    /\ dispatched' = [topic |-> topic, parses |-> parses, throwers |-> throwers,
                      fired |-> IF parses THEN invoked(subscriptions, topic, throwers) ELSE <<>>]
    /\ UNCHANGED <<subscriptions, brokerSubs, mqttPending, resub>>
    /\ mqttFrame

\* ---------------------------------------------------------- DeviceService

DeviceEventTypes == {"unlock_success", "unlock_failed", "tamper_detected"}

\* Device events awaiting handleDeviceEvent in one behaviour.
MaxInbound == 1

\* A controller's event arrives on devices/<deviceId>/events and the
\* subscription's callback hands it to handleDeviceEvent.
deviceReports(type, s) ==
    /\ Len(inbound) < MaxInbound
    /\ inbound' = Append(inbound, [deviceId |-> SlotShelf(s), type |-> type,
                                   slotId |-> s, orderId |-> slotOrder[s]])
    /\ UNCHANGED <<orchVars, tokVars, staffVars, mqttVars, deviceLog, tamper, rateVars,
                   magicVars, sweepVars, windowVars, unlockVars>>

\* handleDeviceEvent(deviceId, event): the device status is stored, the event
\* goes to the ledger as device_<type>, handleUnlockSuccess and
\* handleUnlockFailed write a log line and handleTamperDetected sets the
\* device_tamper key of the device.
handleDeviceEvent ==
    /\ inbound /= <<>>
    /\ tamper' = IF Head(inbound).type = "tamper_detected"
                 THEN [tamper EXCEPT ![Head(inbound).deviceId] = TRUE] ELSE tamper
    /\ deviceLog' = deviceLog \cup {[type |-> Head(inbound).type, deviceId |-> Head(inbound).deviceId,
                                     slotId |-> Head(inbound).slotId]}
    /\ inbound' = Tail(inbound)
    /\ UNCHANGED <<orchVars, tokVars, staffVars, mqttVars, rateVars, magicVars, sweepVars, windowVars, unlockVars>>

\* The 24 hours of a device_tamper key run out.
tamperFlagExpires(shelf) ==
    /\ tamper[shelf]
    /\ tamper' = [tamper EXCEPT ![shelf] = FALSE]
    /\ UNCHANGED <<orchVars, tokVars, staffVars, mqttVars, inbound, deviceLog, rateVars,
                   magicVars, sweepVars, windowVars, unlockVars>>

\* ------------------------------------------------------------ magic links

\* The magic-link token of a rider: the jwt signed over the rider's id.
magicToken(r) == [type |-> "magic_link", riderId |-> r]
MagicTokens == {magicToken(r) : r \in Riders}
\* Rider rows that are active.
ActiveRiders == Riders

\* Rider sessions counted per token.
MaxSessions == 2

magicFrame == UNCHANGED <<orchVars, tokVars, staffVars, mqttVars, deviceVars, rateVars, sweepVars, windowVars, unlockVars>>

\* generateRiderMagicLink, up to and including await storeMagicLinkToken.
generateRiderMagicLink_store(r) ==
    /\ magicPc[r] = "idle"
    /\ magicStored' = magicStored \cup {magicToken(r)}
    /\ magicPc' = [magicPc EXCEPT ![r] = "stored"]
    /\ UNCHANGED <<magicHanded, mpc, mTok, mSessions>>
    /\ magicFrame

\* storeMagicLinkToken throws: the call rethrows and hands out nothing.
generateRiderMagicLink_storeThrows(r) ==
    /\ magicPc[r] = "idle"
    /\ magicPc' = [magicPc EXCEPT ![r] = "threw"]
    /\ UNCHANGED <<magicStored, magicHanded, mpc, mTok, mSessions>>
    /\ magicFrame

\* generateRiderMagicLink returns the link.
generateRiderMagicLink_return(r) ==
    /\ magicPc[r] = "stored"
    /\ magicHanded' = magicHanded \cup {magicToken(r)}
    /\ magicPc' = [magicPc EXCEPT ![r] = "done"]
    /\ UNCHANGED <<magicStored, mpc, mTok, mSessions>>
    /\ magicFrame

\* verifyMagicLink up to await verifyMagicLinkToken: a token whose key is
\* absent ends the call with null.
verifyMagicLink_check(v, tok) ==
    /\ mpc[v] = "idle"
    /\ mTok' = [mTok EXCEPT ![v] = tok]
    /\ mpc' = [mpc EXCEPT ![v] = IF tok \in magicStored THEN "valid" ELSE "idle"]
    /\ UNCHANGED <<magicStored, magicHanded, magicPc, mSessions>>
    /\ magicFrame

\* verifyMagicLink from findRiderById to the return: the session is stored,
\* the token's key deleted and the session returned.
verifyMagicLink_session(v) ==
    /\ mpc[v] = "valid"
    /\ IF mTok[v].riderId \in ActiveRiders
       THEN /\ mSessions[mTok[v].riderId] < MaxSessions
            /\ magicStored' = magicStored \ {mTok[v]}
            /\ mSessions' = [mSessions EXCEPT ![mTok[v].riderId] = @ + 1]
       ELSE UNCHANGED <<magicStored, mSessions>>
    /\ mpc' = [mpc EXCEPT ![v] = "idle"]
    /\ UNCHANGED <<magicHanded, magicPc, mTok>>
    /\ magicFrame

\* The 15 minutes of a magic_link key run out.
magicLinkExpires(tok) ==
    /\ tok \in magicStored
    /\ magicStored' = magicStored \ {tok}
    /\ UNCHANGED <<magicHanded, magicPc, mpc, mTok, mSessions>>
    /\ magicFrame

\* ------------------------------------------------------------ cleanup task

\* The interval callback of startCleanupTasks: cleanupExpiredReservations
\* writes a debug line and touches no slot, order or reservation.
cleanupExpiredReservations ==
    /\ swept' = TRUE
    /\ UNCHANGED <<orchVars, tokVars, staffVars, mqttVars, deviceVars, rateVars, magicVars,
                   windowVars, unlockVars>>

\* The process serving an assignOrderToSlot call dies between two awaits:
\* the call is abandoned where it stands.
assignOrderToSlot_crash(p) ==
    /\ pc[p] \in {"reserve", "expire", "updSlot", "updOrder", "lock"}
    /\ pc' = [pc EXCEPT ![p] = "crashed"]
    /\ UNCHANGED <<storeRows, redisSlot, timers, mqttConnected, rate, uResult,
                   aOrder, aSlot, aResult, aHeld, aLog, tokVars, extVars>>

\* ------------------------------------------- the unlock token's time window

\* Values of config.jwt.unlockTokenTTL (JWT_UNLOCK_TTL) and of
\* config.security.clockSkewToleranceSeconds (CLOCK_SKEW_TOLERANCE).
ConfiguredTTLs == {30, 60}
ConfiguredTolerances == {0, 5, 10, 11, 30}

\* Seconds followed after the token was minted.
MaxElapsed == 95

\* A token minted at second 0 under a configuration, not yet presented.
windowOf(ttl, tolerance) ==
    [ttl |-> ttl, tolerance |-> tolerance, elapsed |-> 0, verdict |-> None]

\* jwt.verify with clockTolerance on a token with nbf = 0 and exp = ttl.
windowTimeClaimsOk(w) ==
    /\ ~(0 > w.elapsed + w.tolerance)
    /\ ~(w.elapsed >= w.ttl + w.tolerance)

\* exists() of the jti key, stored with setEx(key, ttl + 10).
windowJtiExists(w) == w.elapsed < w.ttl + jtiTTLBuffer

windowFrame ==
    UNCHANGED <<orchVars, tokVars, staffVars, mqttVars, deviceVars, rateVars, magicVars,
                sweepVars, unlockVars>>

\* A second passes.
windowElapses ==
    /\ win.elapsed < MaxElapsed
    /\ win' = [win EXCEPT !.elapsed = @ + 1]
    /\ windowFrame

\* verifyUnlockToken of the token, never consumed before, by the controller
\* of its own shelf: the security event the call logs. The call is watched
\* up to its verdict; the token stays unconsumed.
windowVerify ==
    /\ win' = [win EXCEPT !.verdict =
                  IF ~windowTimeClaimsOk(win) THEN "unlock_token_verification_failed"
                  ELSE IF ~windowJtiExists(win) THEN "unlock_token_replay_attempt"
                  ELSE "unlock_token_verified"]
    /\ windowFrame

\* ------------------------------------------------------------ environment

\* The TTL of a reservation key runs out.
reservationExpires(s) ==
    /\ resv[s] /= None
    /\ resvTTL[s]
    /\ releaseSlot(s)
    /\ UNCHANGED <<storeRows, timers, mqttConnected, rate, uResult, assignProcs, tokVars>>
    /\ UNCHANGED extVars

\* MQTT client 'connect' / 'offline' events. The session is clean: going
\* offline the broker forgets the subscriptions and the pending calls fail;
\* the connect handler starts resubscribeToTopics, which runs up to its first
\* await.
mqttConnectionChanges ==
    /\ mqttConnected' = ~mqttConnected
    /\ mqttPending' = <<>>
    /\ IF mqttConnected
       THEN /\ brokerSubs' = {}
            /\ resub' = [running |-> FALSE, todo |-> <<>>]
       ELSE IF subscriptions = <<>>
       THEN /\ brokerSubs' = {}
            /\ resub' = [running |-> FALSE, todo |-> <<>>]
       ELSE /\ brokerSubs' = {Head(subscriptions)}
            /\ resub' = [running |-> TRUE, todo |-> Tail(subscriptions)]
    /\ UNCHANGED <<storeRows, redisSlot, timers, rate, uResult, assignProcs, tokVars>>
    /\ UNCHANGED <<staffVars, subscriptions, dispatched, deviceVars, rateVars, magicVars, sweepVars, windowVars, unlockVars>>

\* ------------------------------------------------------------------- Init

InitialOrderStatuses == {"created", "prepared", "complete", "cancelled"}

\* The state after construction, whatever the rows of the store: no call in
\* flight, nothing reserved, no token minted.
InitRows(active, statuses) ==
    /\ slotState = [s \in Slots |-> "empty"]
    /\ slotOrder = [s \in Slots |-> None]
    /\ slotActive = active
    /\ orderStatus = statuses
    /\ orderSlot = [o \in Orders |-> None]
    /\ resv = [s \in Slots |-> None]
    /\ resvTTL = [s \in Slots |-> FALSE]
    /\ timers = [s \in Slots |-> 0]
    /\ mqttConnected = TRUE
    /\ rate = [r \in Riders |-> 0]
    /\ uResult = unlockResult(None, 0, <<>>)
    /\ pc = [p \in Procs |-> "idle"]
    /\ aOrder = [p \in Procs |-> None]
    /\ aSlot = [p \in Procs |-> None]
    /\ aResult = [p \in Procs |-> None]
    /\ aHeld = [p \in Procs |-> FALSE]
    /\ aLog = [p \in Procs |-> <<>>]
    /\ now = 0
    /\ nextJti = 1
    /\ tokens = {}
    /\ handed = {}
    /\ jtiExp = [j \in 1..MaxJti |-> 0]
    /\ jtiStored = {}
    /\ gpc = "idle"
    /\ gTok = None
    /\ vpc = [v \in Verifiers |-> "idle"]
    /\ vTok = [v \in Verifiers |-> None]
    /\ vShelf = [v \in Verifiers |-> None]
    /\ vClock = [v \in Verifiers |-> 0]
    /\ vResult = [v \in Verifiers |-> NoResult]
    /\ okCount = [j \in 1..MaxJti |-> 0]
    /\ eResult = emergencyResult(FALSE, <<>>, <<>>, <<>>)
    /\ brokerSubs = {}
    /\ mqttPending = <<>>
    /\ resub = [running |-> FALSE, todo |-> <<>>]
    /\ dispatched = [topic |-> <<>>, parses |-> TRUE, throwers |-> {}, fired |-> <<>>]
    /\ inbound = <<>>
    /\ deviceLog = {}
    /\ tamper = [shelf \in Shelves |-> FALSE]
    /\ rateTTL = [r \in Riders |-> FALSE]
    /\ magicStored = {}
    /\ magicHanded = {}
    /\ magicPc = [r \in Riders |-> "idle"]
    /\ mpc = [v \in Verifiers |-> "idle"]
    /\ mTok = [v \in Verifiers |-> None]
    /\ mSessions = [r \in Riders |-> 0]
    /\ swept = FALSE
    /\ unlockFrom = [s \in Slots |-> None]

\* No pattern is subscribed until a component subscribes.
InitWith(active, statuses) ==
    /\ InitRows(active, statuses)
    /\ subscriptions = <<>>
    /\ win = windowOf(unlockTokenTTL, clockSkewToleranceSeconds)

\* A site whose shelf has one slot in service (S2 is out of service); O1 is
\* prepared and O2 is in any status a row can have before assignment.
Init ==
    \E st \in InitialOrderStatuses :
        InitWith([s \in Slots |-> s = "S1"], [o \in Orders |-> IF o = "O1" THEN "prepared" ELSE st])

\* The slots the requests name.
ServedSlots == {"S1"}

\* ------------------------------------------------------------------- Next

\* The steps of the assignOrderToSlot call of process p.
assignSteps(p) ==
    \/ \E o \in OrderIds, t \in Tenants, pref \in SlotIds \cup {None} :
          assignOrderToSlot_validate(p, o, t, pref)
    \/ assignOrderToSlot_setNX(p)
    \/ assignOrderToSlot_expire(p)
    \/ assignOrderToSlot_reserveThrows(p)
    \/ assignOrderToSlot_updateSlot(p)
    \/ assignOrderToSlot_updateOrder(p)
    \/ assignOrderToSlot_lock(p)
    \/ assignOrderToSlot_rollback(p)
    \/ assignOrderToSlot_rollbackThrows(p)
    \/ assignOrderToSlot_done(p)

\* The whole lifecycle of a slot and its orders, one assignment at a time.
Next ==
    \/ assignSteps("p1")
    \/ \E o \in Orders, r \in AuthorizedRiders, outcome \in {"ok", "slot_throws"} :
          requestUnlock(o, r, outcome)
    \/ \E r \in Riders : rateLimitWindowExpires(r)
    \/ \E s \in ServedSlots, o \in Orders, outcome \in {"ok", "order_throws", "log_throws"} :
          confirmUnlock(s, o, outcome)
    \/ \E s \in ServedSlots : handleUnlockFailure(s)
    \/ \E s \in ServedSlots : emergencyOverride(s)
    \/ \E s \in ServedSlots, outcome \in ResetOutcomes : resetSlotAfterPickup(s, outcome)
    \/ \E s \in ServedSlots : reservationExpires(s)
    \/ mqttConnectionChanges

Spec == Init /\ [][Next]_vars

\* Concurrent assignments racing with pickup confirmation, the delayed
\* reset, the emergency override and the expiry of reservations.
NextRace ==
    \/ \E p \in Procs : assignSteps(p)
    \/ \E s \in ServedSlots, o \in Orders, outcome \in {"ok", "order_throws", "log_throws"} :
          confirmUnlock(s, o, outcome)
    \/ \E s \in ServedSlots : emergencyOverride(s)
    \/ \E s \in ServedSlots, outcome \in ResetOutcomes : resetSlotAfterPickup(s, outcome)
    \/ \E s \in ServedSlots : reservationExpires(s)
    \/ mqttConnectionChanges

SpecRace == Init /\ [][NextRace]_vars

\* One assignment at a time with pickup confirmation, the emergency
\* override, the delayed reset and the expiry of reservations.
NextLive ==
    \/ assignSteps("p1")
    \/ \E s \in ServedSlots, o \in Orders, outcome \in {"ok", "order_throws", "log_throws"} :
          confirmUnlock(s, o, outcome)
    \/ \E s \in ServedSlots : emergencyOverride(s)
    \/ \E s \in ServedSlots, outcome \in ResetOutcomes : resetSlotAfterPickup(s, outcome)
    \/ \E s \in ServedSlots : reservationExpires(s)
    \/ mqttConnectionChanges

\* What runs without a new request: a call in flight goes on to its return,
\* a pending timer fires, the TTL of a reservation key runs out.
assignProgress(p) ==
    \/ assignOrderToSlot_setNX(p)
    \/ assignOrderToSlot_expire(p)
    \/ assignOrderToSlot_reserveThrows(p)
    \/ assignOrderToSlot_updateSlot(p)
    \/ assignOrderToSlot_updateOrder(p)
    \/ assignOrderToSlot_lock(p)
    \/ assignOrderToSlot_rollback(p)
    \/ assignOrderToSlot_rollbackThrows(p)
    \/ assignOrderToSlot_done(p)

SpecLive ==
    /\ Init
    /\ [][NextLive]_vars
    /\ WF_vars(assignProgress("p1"))
    /\ \A s \in ServedSlots :
          /\ WF_vars(\E outcome \in ResetOutcomes : resetSlotAfterPickup(s, outcome))
          /\ WF_vars(reservationExpires(s))

\* The reasons a staff member may give for an override.
Reasons == {"jammed", "recall"}

\* The emergency override with every caller, code and failing await,
\* against the assignments of the site and the state of the channel.
NextStaff ==
    \/ assignSteps("p1")
    \/ \E s \in ServedSlots \cup {"Sx"}, staff \in Staff, totp \in {"good", "bad"},
          reason \in Reasons, outcome \in EmergencyOutcomes :
          emergencyUnlock(s, staff, totp, reason, outcome)
    \/ mqttConnectionChanges

SpecStaff == Init /\ [][NextStaff]_vars

\* The MQTT client: components subscribe and unsubscribe while the
\* connection comes and goes.
MqttPatterns == {<<"a", "/", "b">>, <<"a", "/", "+">>}

NextMqtt ==
    \/ \E p \in MqttPatterns : subscribe_call(p)
    \/ \E p \in MqttPatterns : unsubscribe_call(p)
    \/ mqttAck
    \/ resubscribeToTopics_step
    \/ mqttConnectionChanges

SpecMqtt == Init /\ [][NextMqtt]_vars

\* Unlock requests and the events the controllers send back. An event that
\* has arrived is handled; no caller of confirmUnlock or handleUnlockFailure
\* exists in the services, so neither runs here.
NextDevice ==
    \/ assignSteps("p1")
    \/ \E o \in Orders, r \in AuthorizedRiders : requestUnlock(o, r, "ok")
    \/ \E type \in DeviceEventTypes, s \in ServedSlots : deviceReports(type, s)
    \/ handleDeviceEvent
    \/ \E shelf \in Shelves : tamperFlagExpires(shelf)

SpecDevice ==
    /\ Init
    /\ [][NextDevice]_vars
    /\ WF_vars(assignProgress("p1"))
    /\ WF_vars(handleDeviceEvent)

\* Unlock requests against the rate limiter, whose expire call may fail, with
\* the windows running out.
NextRate ==
    \/ assignSteps("p1")
    \/ \E o \in Orders, r \in Riders, outcome \in {"ok", "expire_throws"} :
          requestUnlock(o, r, outcome)
    \/ \E r \in Riders : rateLimitWindowExpires(r)

SpecRate ==
    /\ Init
    /\ [][NextRate]_vars
    /\ \A r \in Riders : WF_vars(rateLimitWindowExpires(r))

\* Magic links: riders ask for links and present them, from two devices at
\* a time.
NextMagic ==
    \/ \E r \in Riders : generateRiderMagicLink_store(r)
    \/ \E r \in Riders : generateRiderMagicLink_storeThrows(r)
    \/ \E r \in Riders : generateRiderMagicLink_return(r)
    \/ \E v \in Verifiers, tok \in magicHanded : verifyMagicLink_check(v, tok)
    \/ \E v \in Verifiers : verifyMagicLink_session(v)
    \/ \E tok \in MagicTokens : magicLinkExpires(tok)

SpecMagic == Init /\ [][NextMagic]_vars

\* Assignments that may be abandoned, with what runs by itself afterwards:
\* the reservation's TTL and the periodic cleanup task.
NextSweep ==
    \/ assignSteps("p1")
    \/ assignOrderToSlot_crash("p1")
    \/ \E s \in ServedSlots : reservationExpires(s)
    \/ cleanupExpiredReservations

SpecSweep ==
    /\ Init
    /\ [][NextSweep]_vars
    /\ WF_vars(assignProgress("p1"))
    /\ WF_vars(cleanupExpiredReservations)
    /\ \A s \in ServedSlots : WF_vars(reservationExpires(s))

\* Unlock requests that never hear from the controller, with everything that
\* runs by itself: the clock (token and jti expiry), the TTL of a
\* reservation and the periodic cleanup task. Requests arrive early enough
\* for the clock to pass the expiry of their tokens.
NextAbandon ==
    \/ assignSteps("p1")
    \/ \E o \in Orders, r \in AuthorizedRiders :
          now \in IssueInstants /\ requestUnlock(o, r, "ok")
    \/ \E s \in ServedSlots : reservationExpires(s)
    \/ cleanupExpiredReservations
    \/ tick

SpecAbandon ==
    /\ Init
    /\ [][NextAbandon]_vars
    /\ WF_vars(assignProgress("p1"))
    /\ WF_vars(cleanupExpiredReservations)
    /\ WF_vars(tick)
    /\ \A s \in ServedSlots : WF_vars(reservationExpires(s))

\* A never-used token under every configuration, presented second after
\* second.
InitWindow ==
    /\ InitRows([s \in Slots |-> s = "S1"], [o \in Orders |-> "prepared"])
    /\ subscriptions = <<>>
    /\ \E ttl \in ConfiguredTTLs, tolerance \in ConfiguredTolerances :
          win = windowOf(ttl, tolerance)

NextWindow == windowElapses \/ windowVerify

SpecWindow == InitWindow /\ [][NextWindow]_vars

\* A site with both slots in service and both orders prepared, and two
\* assignOrderToSlot calls at a time.
InitTwoSlots == InitWith([s \in Slots |-> TRUE], [o \in Orders |-> "prepared"])

NextTwoSlots == \E p \in Procs : assignSteps(p)

SpecTwoSlots == InitTwoSlots /\ [][NextTwoSlots]_vars

\* Inbound dispatch: any registry, any topic.
RECURSIVE Registries(_)
Registries(ps) ==
    {<<>>} \cup UNION {{<<p>> \o r : r \in Registries(ps \ {p})} : p \in ps}

InitDispatch ==
    /\ InitRows([s \in Slots |-> s = "S1"], [o \in Orders |-> "prepared"])
    /\ subscriptions \in Registries(Patterns)
    /\ win = windowOf(unlockTokenTTL, clockSkewToleranceSeconds)

NextDispatch ==
    \E topic \in Topics, parses \in BOOLEAN, throwers \in SUBSET Patterns :
        handleMessage(topic, parses, throwers)

SpecDispatch == InitDispatch /\ [][NextDispatch]_vars

\* The unlock requests of authorized and unauthorized couriers against the
\* assignments of the site, with failed unlocks and the rate-limit window.
NextUnlock ==
    \/ assignSteps("p1")
    \/ \E o \in OrderIds, r \in Riders,
          outcome \in {"ok", "token_throws", "slot_throws", "log_throws"} :
          requestUnlock(o, r, outcome)
    \/ \E r \in Riders : rateLimitWindowExpires(r)
    \/ \E s \in ServedSlots : handleUnlockFailure(s)

SpecUnlock == Init /\ [][NextUnlock]_vars

\* What a controller may present: a token that was handed out, or a forged
\* one.
PresentedTokens == {t \in tokens : t.jti \in handed} \cup ForgedTokens

\* The unlock-token protocol: one issuer, concurrent verifiers, the clock.
NextToken ==
    \/ \E o \in {"O1"}, r \in Riders, s \in Slots : generateUnlockToken_sign(o, r, s)
    \/ generateUnlockToken_store
    \/ generateUnlockToken_storeThrows
    \/ \E v \in Verifiers, tok \in PresentedTokens,
          shelf \in Shelves, drift \in Drifts :
          verifyUnlockToken_check(v, tok, shelf, drift)
    \/ \E v \in Verifiers : verifyUnlockToken_consume(v)
    \/ \E v \in Verifiers : verifyUnlockToken_consumeThrows(v)
    \/ tick

\* The token protocol does not read the rows of the store.
InitToken == InitWith([s \in Slots |-> TRUE], [o \in Orders |-> "prepared"])

SpecToken == InitToken /\ [][NextToken]_vars

\* ----------------------------------------------------------------- claims

\* The edges of the slot state machine; `error` is reachable from any state.
SlotEdges == {<<"empty", "reserved">>, <<"reserved", "occupied">>,
              <<"occupied", "unlocking">>, <<"unlocking", "open">>,
              <<"open", "empty">>, <<"unlocking", "occupied">>}

\* The edges of the order state machine.
OrderEdges == {<<"created", "prepared">>, <<"prepared", "assigned">>,
               <<"assigned", "picked_up">>, <<"picked_up", "complete">>}
                 \cup {<<st, "cancelled">> : st \in {"created", "prepared", "assigned", "picked_up"}}

\* The step in which the verifyUnlockToken call of v returns the claims.
VerifiedStep(v) ==
    /\ vpc[v] = "consume"
    /\ vpc'[v] = "idle"
    /\ vResult'[v].event = "unlock_token_verified"

\* C1: in no reachable state are two orders in status `assigned` bound to
\* the same slot, whatever the interleaving of concurrent assignOrderToSlot
\* calls with rollback, delayed reset, emergency unlock and reservation
\* expiry.
C1_MutualExclusion ==
    \A o1, o2 \in Orders :
        (o1 /= o2 /\ orderStatus[o1] = "assigned" /\ orderStatus[o2] = "assigned")
            => orderSlot[o1] /= orderSlot[o2]

\* C2: for any issued unlock token at most one verifyUnlockToken call,
\* sequential or concurrent, returns the claims.
C2_SingleUse == \A j \in 1..MaxJti : okCount[j] <= 1

\* C3: a verifyUnlockToken call returns the claims only when the requesting
\* shelf is the shelf the token was issued for; a token for shelf A never
\* verifies against a shelf B /= A, at any time and on any attempt.
C3_AudienceBinding ==
    [][\A v \in Verifiers : VerifiedStep(v) => vShelf[v] = vTok[v].shelfId]_vars

\* C3 witness: a token was refused for the wrong shelf although it had never
\* been verified before and its single-use marker was still there.
C3_Witness ==
    \E v \in Verifiers :
        /\ vResult[v].event = "unlock_token_wrong_shelf"
        /\ \A j \in 1..MaxJti : okCount[j] = 0
        /\ \E t \in tokens : verifyUnlockTokenJti(t.jti)

C5_RegisterBeforeHandOut == handed \subseteq jtiStored

\* C5 witness: a token has been returned to its caller.
C5_Witness == \E t \in tokens : t.jti \in handed /\ gpc = "idle"

\* C6: every change of a slot's state is one of the listed edges
\* empty->reserved, reserved->occupied, occupied->unlocking,
\* unlocking->open, open->empty, unlocking->occupied, or a move to `error`.
C6_SlotTransitions ==
    [][\A s \in Slots :
          slotState'[s] /= slotState[s] =>
              \/ <<slotState[s], slotState'[s]>> \in SlotEdges
              \/ slotState'[s] = "error"]_vars

\* C7: every change of an order's status is an edge of
\* created->prepared->assigned->picked_up->complete or a move to `cancelled`
\* from a state before `complete`; a terminal status never changes.
C7_OrderTransitions ==
    [][\A o \in Orders :
          orderStatus'[o] /= orderStatus[o] =>
              <<orderStatus[o], orderStatus'[o]>> \in OrderEdges]_vars

\* C8: a confirmUnlock invoked while the slot is not `unlocking` or the
\* order is not `assigned` leaves the slot state, the order status and the
\* reservation unchanged and schedules no reset.
C8_InvalidConfirmMutatesNothing ==
    [][\A s \in ServedSlots, o \in Orders, outcome \in {"ok", "order_throws", "log_throws"} :
          (/\ slotState[s] /= "unlocking" \/ orderStatus[o] /= "assigned"
           /\ confirmUnlock(s, o, outcome))
              => UNCHANGED <<slotState, slotOrder, orderStatus, resv, timers>>]_vars

\* C9: a slot whose state is reserved, occupied, unlocking or open
\* references exactly one order, and an empty slot references none.
C9_SlotOrderBinding ==
    \A s \in Slots :
        /\ slotState[s] \in {"reserved", "occupied", "unlocking", "open"}
              => slotOrder[s] \in Orders
        /\ slotState[s] = "empty" => slotOrder[s] = None

\* C10 as stated: no assignOrderToSlot call that failed after its
\* reservation succeeded returns while the reservation key of its slot
\* still exists.
C10_NoFailureReturnsHolding ==
    \A p \in Procs :
        (pc[p] = "done" /\ aResult[p] \in {"failed", "failed_release"}) => ~aHeld[p]

\* C10 amended: an assignOrderToSlot call that failed after its reservation
\* succeeded has called releaseSlot before it returns, and when that release
\* went through the reservation key of its slot is gone at the return; only
\* a release that itself failed leaves the key behind, to its TTL.
C10_ReleaseBeforeFailure ==
    \A p \in Procs : (pc[p] = "done" /\ aResult[p] = "failed") => ~aHeld[p]

\* C10 witness: a call failed after it had reserved its slot and bound the
\* order, and returned with the key released.
C10_Witness ==
    \E p \in Procs :
        /\ pc[p] = "done"
        /\ aResult[p] = "failed"
        /\ orderStatus[aOrder[p]] = "assigned"
        /\ resv[aSlot[p]] = None
\* The assignOrderToSlot call of p has returned a failure for slot s after
\* its lock command could not be dispatched (the slot_assigned event is
\* written, the command is not sent).
DispatchFailed(p, s) ==
    /\ pc[p] = "done"
    /\ aSlot[p] = s
    /\ aResult[p] \in {"failed", "failed_release"}
    /\ aLog[p] = <<"slot_assigned">>

\* C11: when the lock-command dispatch of assignOrderToSlot fails after a
\* successful reservation, the reservation of the slot is eventually
\* released and the slot eventually returns to `empty`.
C11_DispatchFailureFreesSlot ==
    \A s \in ServedSlots :
        (\E p \in Procs : DispatchFailed(p, s))
            ~> (slotState[s] = "empty" /\ resv[s] = None)

\* C12: with a threshold of maxUnlockAttempts per window per courier, a
\* requestUnlock call that brings the courier's counter to at most the
\* threshold is not rejected for rate limiting, and a call that brings it
\* past the threshold is rejected with the rate-limit error and writes
\* exactly one unlock_rate_limited event.
C12_RateLimit ==
    [][\A r \in Riders :
          rate'[r] = rate[r] + 1 =>
              IF rate'[r] <= maxUnlockAttempts
              THEN /\ uResult'.error /= "Too many unlock attempts"
                   /\ uResult'.events /= <<"unlock_rate_limited">>
              ELSE /\ uResult'.error = "Too many unlock attempts"
                   /\ uResult'.events = <<"unlock_rate_limited">>]_vars

C14_ReservationHasExpiry ==
    \A s \in Slots :
        (resv[s] /= None /\ \A p \in Procs : ~(pc[p] = "expire" /\ aSlot[p] = s))
            => resvTTL[s]

\* The request names an order or a slot that cannot be assigned: the order
\* does not exist, is not prepared or is another tenant's; the preferred
\* slot does not exist, is not empty or is not active; or no slot of the
\* site is empty and active.
AssignmentImpossible(o, t, pref) ==
    \/ o \notin Orders
    \/ orderStatus[o] /= "prepared"
    \/ OrderTenant(o) /= t
    \/ pref /= None /\ (pref \notin Slots \/ slotState[pref] /= "empty" \/ ~slotActive[pref])
    \/ pref = None /\ ~\E s \in Slots : slotState[s] = "empty" /\ slotActive[s]

\* C15: an assignOrderToSlot call whose order or slot cannot be assigned
\* fails at once and mutates nothing: no reservation is created, the rows
\* of slots and orders are unchanged, no device command is sent and no
\* slot_assigned event is written.
C15_PreconditionFailureMutatesNothing ==
    [][\A p \in Procs, o \in OrderIds, t \in Tenants, pref \in SlotIds \cup {None} :
          (AssignmentImpossible(o, t, pref) /\ assignOrderToSlot_validate(p, o, t, pref))
              => /\ pc'[p] = "done"
                 /\ aResult'[p] = "precondition"
                 /\ aLog'[p] = <<>>
                 /\ UNCHANGED <<storeRows, redisSlot, timers>>]_vars

\* C15 witness: a call was refused for its preconditions while the slot it
\* named was held by another order.
C15_Witness ==
    \E p \in Procs :
        /\ pc[p] = "done"
        /\ aResult[p] = "precondition"
        /\ \E s \in Slots : slotState[s] = "reserved" /\ resv[s] /= None

\* The step in which the assignOrderToSlot call of p returns success.
SuccessStep(p) ==
    /\ pc[p] = "lock"
    /\ pc'[p] = "done"
    /\ aResult'[p] = "success"

\* C16: whenever assignOrderToSlot returns success for order O and slot S,
\* S is reserved and bound to O, O is assigned and bound to S, the
\* reservation S -> O exists, a lock command for S was dispatched and exactly
\* one slot_assigned event was written by the call.
C16_SuccessPostconditions ==
    [][\A p \in Procs :
          SuccessStep(p) =>
              /\ slotState'[aSlot[p]] = "reserved"
              /\ slotOrder'[aSlot[p]] = aOrder[p]
              /\ orderStatus'[aOrder[p]] = "assigned"
              /\ orderSlot'[aOrder[p]] = aSlot[p]
              /\ resv'[aSlot[p]] = aOrder[p]
              /\ aLog'[p] = <<"slot_assigned", "lock_slot">>]_vars

\* The typed failures of the early returns of requestUnlock.
PreconditionErrors ==
    {"Order not found", "Order status is not valid for pickup",
     "No slot assigned to this order", "Slot state is not valid for unlock"}

\* The order exists and is assigned, and a slot bound to it is reserved or
\* occupied.
UnlockPreconditionsHold(o) ==
    /\ o \in Orders
    /\ orderStatus[o] = "assigned"
    /\ \E s \in Slots : slotOrder[s] = o /\ slotState[s] \in {"reserved", "occupied"}

\* C17: a requestUnlock call whose preconditions fail returns a typed
\* failure, mints no token, registers no jti, leaves the slot as it was and
\* does not count against the rider's rate limit; a token is minted only for
\* an assigned order whose bound slot is reserved or occupied.
C17_UnlockPreconditions ==
    [][/\ \A o \in OrderIds :
              (~UnlockPreconditionsHold(o) /\ requestUnlock(o, "R1", "ok")) =>
                  /\ uResult'.error \in PreconditionErrors
                  /\ uResult'.jti = 0
                  /\ uResult'.events = <<>>
                  /\ UNCHANGED <<rate, tokens, jtiStored, jtiExp, nextJti, handed,
                                 slotState, slotOrder>>
       /\ nextJti' /= nextJti =>
              \E t \in tokens' \ tokens :
                  /\ t.orderId \in Orders
                  /\ orderStatus[t.orderId] = "assigned"
                  /\ slotOrder[t.slotId] = t.orderId
                  /\ slotState[t.slotId] \in {"reserved", "occupied"}]_vars

\* A call was turned away because the slot is already unlocking, after the
\* rider's counter had been used by an earlier call.
C17_Witness ==
    /\ uResult.error = "Slot state is not valid for unlock"
    /\ \E s \in Slots : slotState[s] = "unlocking"
    /\ \E r \in Riders : rate[r] > 0

\* The three checks of verifyUnlockToken pass for `tok` presented by the
\* controller of `shelf` at the clock of the store.
wouldVerify(tok, shelf) ==
    /\ jwtTimeClaimsOk(tok, now)
    /\ shelfMatches(tok, shelf)
    /\ verifyUnlockTokenJti(tok.jti)

C19_ConfirmedSlotIsReset ==
    \A s \in ServedSlots :
        (timers[s] > 0 /\ slotState[s] = "open")
            ~> \/ slotState[s] = "empty" /\ resv[s] = None
               \/ slotState[s] \notin {"open", "empty"}

FailingBranch(res) ==
    IF res.event = "unlock_token_wrong_shelf" THEN "wrong shelf"
    ELSE IF res.event = "unlock_token_replay_attempt" THEN "replay"
    ELSE IF res.error = "jwt expired" THEN "expired"
    ELSE IF res.error = "invalid signature" THEN "bad signature"
    ELSE None

\* C22: two failed verifications that took different branches (wrong shelf,
\* expired, bad signature, replay) logged security events of different
\* types.
C22_BranchesDistinguishable ==
    \A v, w \in Verifiers :
        (/\ FailingBranch(vResult[v]) /= None
         /\ FailingBranch(vResult[w]) /= None
         /\ FailingBranch(vResult[v]) /= FailingBranch(vResult[w]))
            => vResult[v].event /= vResult[w].event

C24_AuditFailureDoesNotPropagate ==
    [][\A s \in ServedSlots \cup {"Sx"}, staff \in Staff, totp \in {"good", "bad"}, reason \in Reasons :
          emergencyUnlock(s, staff, totp, reason, "log_throws") =>
              (eResult'.ok <=>
                  (verifyStepUpAuth(staff, totp) /\ getSlot(s) /= None /\ mqttConnected))]_vars

\* C26: a step-up verification that fails on emergencyUnlock gives the
\* caller a failure and leaves a record in the ledger or in the security
\* log, whatever the cause of the failure.
C26_StepUpFailureAudited ==
    [][\A s \in ServedSlots \cup {"Sx"}, staff \in Staff, totp \in {"good", "bad"},
         reason \in Reasons, outcome \in EmergencyOutcomes :
          (emergencyUnlock(s, staff, totp, reason, outcome) /\ ~verifyStepUpAuth(staff, totp)) =>
              /\ ~eResult'.ok
              /\ eResult'.ledger /= <<>> \/ eResult'.seclog /= <<>>]_vars

\* C23: once the channel is connected and no subscribe, unsubscribe or
\* resubscription is still in flight, the broker holds exactly the patterns
\* of the registry: every registered pattern (those registered while
\* disconnected included) is subscribed, and no unsubscribed pattern is.
C23_RegistrySubscribedWhenConnected ==
    (mqttConnected /\ ~resub.running /\ mqttPending = <<>>)
        => brokerSubs = Range(subscriptions)

\* How many times the callback of pattern p was invoked for the last message.
timesInvoked(p) == Cardinality({i \in DOMAIN dispatched.fired : dispatched.fired[i] = p})

\* C29: for an inbound topic, the handler of every registered pattern that
\* matches it (same number of '/'-separated levels, each pattern level '+'
\* or equal to the topic's) is invoked exactly once, and the handler of a
\* pattern that does not match is not invoked.
C29_EveryMatchInvokedOnce ==
    dispatched.topic /= <<>> =>
        \A p \in Range(subscriptions) :
            LET topicLevels == split(dispatched.topic)
                patternLevels == split(p)
                matches == /\ Len(patternLevels) = Len(topicLevels)
                           /\ \A i \in 1..Len(patternLevels) :
                                 patternLevels[i] = <<"+">> \/ patternLevels[i] = topicLevels[i]
            IN  timesInvoked(p) = IF matches THEN 1 ELSE 0

\* The event at the head of the inbound queue.
reported(type, s) ==
    inbound /= <<>> /\ Head(inbound).type = type /\ Head(inbound).slotId = s

\* C25: when a controller reports unlock_success for a slot that is
\* unlocking, the slot eventually becomes open and its order picked_up; when
\* it reports unlock_failed, the slot eventually returns to occupied.
C25_DeviceEventsReachOrchestrator ==
    \A s \in ServedSlots, o \in Orders :
        /\ (reported("unlock_success", s) /\ slotState[s] = "unlocking" /\ slotOrder[s] = o)
              ~> (slotState[s] = "open" /\ orderStatus[o] = "picked_up")
        /\ (reported("unlock_failed", s) /\ slotState[s] = "unlocking")
              ~> (slotState[s] = "occupied")

\* C27: in no reachable state does a courier's rate-limit counter exist
\* without an expiry, a failure between the increment and the setting of the
\* expiry included.
C27_CounterAlwaysExpires ==
    \A r \in Riders : rate[r] > 0 => rateTTL[r]

\* C28: a magic link is handed out only after its token is stored, and for
\* any magic-link token at most one verifyMagicLink call, sequential or
\* concurrent, returns a rider session.
C28_MagicLinkSingleUse ==
    /\ \A r \in Riders : magicToken(r) \in magicHanded => magicPc[r] = "done"
    /\ \A r \in Riders : mSessions[r] <= 1

\* The assignment that reserved slot s was abandoned and the TTL of its
\* reservation has lapsed, the slot still being marked.
abandoned(s) ==
    /\ \E p \in Procs : pc[p] = "crashed" /\ aSlot[p] = s
    /\ resv[s] = None
    /\ slotState[s] /= "empty"

\* C30: a slot left unavailable by a crashed or abandoned assignment whose
\* reservation TTL has lapsed is eventually repaired by the periodic sweep
\* and becomes assignable again.
C30_SweepRepairsAbandonedSlot ==
    \A s \in ServedSlots : abandoned(s) ~> (slotState[s] = "empty" /\ resv[s] = None)

\* C31: a slot that entered `unlocking` through requestUnlock eventually
\* leaves `unlocking` although neither confirmUnlock nor handleUnlockFailure
\* is ever called for it.
C31_UnlockingTimesOut ==
    \A s \in ServedSlots : (slotState[s] = "unlocking") ~> (slotState[s] /= "unlocking")

\* C32: while the tamper flag of a shelf is set, no step mints an unlock
\* token for a slot of that shelf.
C32_TamperLockout ==
    [][\A shelf \in Shelves :
          tamper[shelf] => \A tok \in tokens' \ tokens : tok.shelfId /= shelf]_vars

\* C33: a verifyUnlockToken call that is rejected for a wrong shelf changes
\* no jti record, and a token that was unconsumed and within its validity
\* window before the call still verifies against its own shelf after it.
C33_WrongShelfDoesNotConsume ==
    [][\A v \in Verifiers, tok \in PresentedTokens, shelf \in Shelves, drift \in Drifts :
          (verifyUnlockToken_check(v, tok, shelf, drift)
              /\ vResult'[v].event = "unlock_token_wrong_shelf") =>
              /\ jtiExp' = jtiExp
              /\ wouldVerify(tok, tok.shelfId) => wouldVerify(tok, tok.shelfId)']_vars

\* C33 witness: a call has been rejected for the wrong shelf and the token
\* handed out is still unconsumed and verifies against its own shelf.
C33_Witness ==
    \E v \in Verifiers, t \in tokens :
        /\ vResult[v].event = "unlock_token_wrong_shelf"
        /\ t.jti \in handed
        /\ okCount[t.jti] = 0
        /\ wouldVerify(t, t.shelfId)

\* C34: under every configured token TTL and clock-skew allowance, a token
\* that was never used is never rejected as a replay: whenever the
\* time-claim check still accepts it, its jti record has not expired.
C34_JtiOutlivesAcceptance == win.verdict /= "unlock_token_replay_attempt"

\* The assignOrderToSlot call of p ends in its compensating rollback, which
\* deletes the reservation key of its slot.
RollbackDeletes(p) ==
    /\ pc[p] \in {"updSlot", "updOrder", "lock"}
    /\ pc'[p] = "done"
    /\ aResult'[p] = "failed"
    /\ resv[aSlot[p]] /= None
    /\ resv'[aSlot[p]] = None

\* A delayed reset scheduled by confirmUnlock fires and deletes the
\* reservation key of slot s.
ResetDeletes(s) ==
    /\ timers'[s] = timers[s] - 1
    /\ resv[s] /= None
    /\ resv'[s] = None

\* C35: a reservation is only released on behalf of the order that holds
\* it: the rollback of an assignOrderToSlot call deletes only the
\* reservation of the call's own order, and the delayed reset of
\* confirmUnlock only that of an order that was picked up.
C35_ReleaseOnlyByHolder ==
    [][/\ \A p \in Procs : RollbackDeletes(p) => resv[aSlot[p]] = aOrder[p]
       /\ \A s \in Slots : ResetDeletes(s) => orderStatus[resv[s]] = "picked_up"]_vars

\* The slots reserved for order o or bound to it.
slotsHeldBy(o) == {s \in Slots : resv[s] = o \/ slotOrder[s] = o}

\* C36: an order never holds more than one slot, also when concurrent
\* assignOrderToSlot calls name the same order with different preferred
\* slots.
C36_OneSlotPerOrder == \A o \in Orders : Cardinality(slotsHeldBy(o)) <= 1

\* The unlock tokens for slot s that a caller holds and that would still be
\* accepted: jti record present, time claims valid.
liveTokens(s) ==
    {t \in tokens : /\ t.slotId = s
                    /\ t.jti \in handed
                    /\ verifyUnlockTokenJti(t.jti)
                    /\ jwtTimeClaimsOk(t, now)}

\* C37: at any time at most one unconsumed, unexpired unlock token exists
\* for a given slot.
C37_OneLiveTokenPerSlot == \A s \in Slots : Cardinality(liveTokens(s)) <= 1

\* The jti records that a later verification would still find.
registeredJtis == {t.jti : t \in {u \in tokens : verifyUnlockTokenJti(u.jti)}}

\* C38: a requestUnlock that returns a failure leaves every slot's state as
\* it was and registers no token.
C38_FailedRequestChangesNothing ==
    [][\A o \in OrderIds, r \in Riders,
          outcome \in {"ok", "token_throws", "slot_throws", "log_throws"} :
          (requestUnlock(o, r, outcome) /\ uResult'.error /= None) =>
              /\ slotState' = slotState
              /\ registeredJtis' = registeredJtis]_vars

\* C39: requestUnlock followed by handleUnlockFailure leaves a slot that was
\* reserved or occupied in the state it had before requestUnlock.
C39_FailureRestoresPriorState ==
    [][\A s \in Slots :
          (/\ handleUnlockFailure(s)
           /\ slotState[s] = "unlocking"
           /\ unlockFrom[s] \in {"reserved", "occupied"}) =>
              slotState'[s] = unlockFrom[s]]_vars

\* The step in which the assignOrderToSlot call of p, having accepted its
\* order as prepared, returns success:false.
FailureStep(p) ==
    /\ pc[p] \notin {"idle", "done"}
    /\ pc'[p] = "done"
    /\ aResult'[p] /= "success"

\* C40: whenever assignOrderToSlot returns success:false, the order is
\* still prepared and bound to no slot.
C40_FailedAssignmentLeavesOrderPrepared ==
    [][\A p \in Procs :
          FailureStep(p) =>
              /\ orderStatus'[aOrder[p]] = "prepared"
              /\ orderSlot'[aOrder[p]] = None]_vars

=============================================================================
